---- MODULE Spec2Model ----
(***************************************************************************)
(* A model of pff (Python Flat File): fixed-width cells (PFFCell and its   *)
(* variants), lines of cells (PFFLine), and the PFFWriter / PFFReader that *)
(* drive them.  Text is a sequence of one-character strings; a Python      *)
(* value is a record tagged with its type.                                 *)
(***************************************************************************)
EXTENDS Integers, Sequences, FiniteSets, TLC

VARIABLES
    \* one cell object, and the last write and read made on it
    cell, wr, rd,
    \* one PFFIntSpaceCell shared by two threads, and the threads
    rcell, th,
    \* composition: the three ways of putting three operands together, a
    \* PFFLine grown by a chain of operations, and the cells it was given
    sums, acc, flat,
    \* a PFFReader, the file it reads, and the outcome of its last call
    reader, rfile, rlast,
    \* a PFFWriter, what its file was handed, and the outcome of its last call
    writer, sink, wlast

cellVars == <<cell, wr, rd>>
raceVars == <<rcell, th>>
lineVars == <<sums, acc, flat>>
readerVars == <<reader, rfile, rlast>>
writerVars == <<writer, sink, wlast>>

vars == <<cellVars, raceVars, lineVars, readerVars, writerVars>>

----------------------------------------------------------------------------
(* Bounds of the model *)

\* most cells in a PFFLine given as an operand of a composition
MaxOperandCells == 2
\* most cells in a PFFLine grown by a chain of compositions
MaxChain == 4
\* largest cell length (width) enumerated
MaxLength == 2
\* longest text value / raw line enumerated
MaxText == 2

----------------------------------------------------------------------------
(* Python values *)

PyNone == [t |-> "none", i |-> 0, s |-> <<>>]
PyInt(n) == [t |-> "int", i |-> n, s |-> <<>>]
PyStr(x) == [t |-> "str", i |-> 0, s |-> x]

\* bool(v): PyNone, 0 and "" are falsy
Truthy(v) == CASE v.t = "none" -> FALSE
               [] v.t = "int" -> v.i # 0
               [] OTHER -> v.s # <<>>

\* The outcome of a call: exc is "none" on a normal return, and val is the
\* value returned; a raised ContentOverflow keeps its content in val.
Ok(v) == [exc |-> "none", val |-> v]
Raise(e) == [exc |-> e, val |-> PyNone]

\* ContentOverflow(content, cell)
ContentOverflow(content, c) == [exc |-> "ContentOverflow", val |-> PyStr(content)]

Digits == <<"0", "1", "2", "3", "4", "5", "6", "7", "8", "9">>

IsDigit(c) == \E d \in 1..10 : Digits[d] = c

DigitValue(c) == (CHOOSE d \in 1..10 : Digits[d] = c) - 1

RECURSIVE NatToText(_)
NatToText(n) == IF n < 10 THEN <<Digits[n + 1]>>
                ELSE NatToText(n \div 10) \o <<Digits[(n % 10) + 1]>>

\* unicode(n) for an int
IntToText(n) == IF n < 0 THEN <<"-">> \o NatToText(-n) ELSE NatToText(n)

RECURSIVE DigitsToNat(_)
DigitsToNat(x) == IF x = <<>> THEN 0
                  ELSE 10 * DigitsToNat(SubSeq(x, 1, Len(x) - 1)) + DigitValue(x[Len(x)])

RECURSIVE lstrip(_, _)
lstrip(x, ch) == IF x # <<>> /\ x[1] = ch THEN lstrip(Tail(x), ch) ELSE x

RECURSIVE rstrip(_, _)
rstrip(x, ch) == IF x # <<>> /\ x[Len(x)] = ch THEN rstrip(SubSeq(x, 1, Len(x) - 1), ch) ELSE x

RECURSIVE Repeat(_, _)
Repeat(ch, n) == IF n <= 0 THEN <<>> ELSE <<ch>> \o Repeat(ch, n - 1)

RECURSIVE Reverse(_)
Reverse(x) == IF x = <<>> THEN <<>> ELSE Reverse(Tail(x)) \o <<x[1]>>

\* text[:k], Python slice semantics (a negative k counts from the end)
SliceTo(x, k) == IF k >= 0 THEN SubSeq(x, 1, IF k < Len(x) THEN k ELSE Len(x))
                 ELSE SubSeq(x, 1, IF Len(x) + k > 0 THEN Len(x) + k ELSE 0)

\* text[k:] for k >= 0
SliceFrom(x, k) == IF k >= Len(x) THEN <<>> ELSE SubSeq(x, k + 1, Len(x))

\* str.ljust / str.rjust: pad only when shorter, never cut
ljust(x, n, ch) == x \o Repeat(ch, n - Len(x))
rjust(x, n, ch) == Repeat(ch, n - Len(x)) \o x

Whitespace == {" ", "\n", "\r", "\t"}

RECURSIVE StripWhitespace(_)
StripWhitespace(x) ==
    IF x # <<>> /\ x[1] \in Whitespace THEN StripWhitespace(Tail(x))
    ELSE IF x # <<>> /\ x[Len(x)] \in Whitespace
         THEN StripWhitespace(SubSeq(x, 1, Len(x) - 1))
    ELSE x

\* int(text): surrounding whitespace, an optional sign, then digits
ParseSigned(negative, body) ==
    IF body = <<>> \/ \E k \in 1..Len(body) : ~IsDigit(body[k])
    THEN Raise("ValueError")
    ELSE Ok(PyInt(IF negative THEN -DigitsToNat(body) ELSE DigitsToNat(body)))

ParseStripped(core) ==
    IF core # <<>> /\ core[1] \in {"-", "+"} THEN ParseSigned(core[1] = "-", Tail(core))
    ELSE ParseSigned(FALSE, core)

ParseInt(x) == ParseStripped(StripWhitespace(x))

\* unicode(v)
unicode(v) == CASE v.t = "none" -> <<"N", "o", "n", "e">>
                [] v.t = "int" -> IntToText(v.i)
                [] OTHER -> v.s

\* cell.type(v) for the kinds modelled: unicode and int
CallType(type, v) ==
    IF type = "unicode" THEN Ok(PyStr(unicode(v)))
    ELSE CASE v.t = "none" -> Raise("TypeError")
           [] v.t = "int" -> Ok(v)
           [] OTHER -> ParseInt(v.s)

is_numerical(type) == type \in {"int", "float", "complex"}

----------------------------------------------------------------------------
(* Hooks and truncators.  A function value is named by an identifier; the  *)
(* absent hook is "None".  The named functions are the default ones of the *)
(* library, those of the test suite, and one that raises.                  *)

Upper(c) == IF c = "a" THEN "A" ELSE c
Lower(c) == IF c = "A" THEN "a" ELSE c

\* a truncator that keeps the end of the text instead of its start
default_truncator_suffix(text, len) ==
    Ok(PyStr(SliceFrom(text, IF Len(text) > len THEN Len(text) - len ELSE 0)))

\* text[:len]
default_truncator(text, len) == Ok(PyStr(SliceTo(text, len)))

\* tests: three_dots(text, length) = text[:length - 3] + "..."
three_dots(text, length) == Ok(PyStr(SliceTo(text, length - 3) \o <<".", ".", ".">>))

CallTruncator(f, text, len) ==
    CASE f = "default_truncator" -> default_truncator(text, len)
      [] f = "three_dots" -> three_dots(text, len)
      [] OTHER -> Raise("RuntimeError")

\* text and cell.type(text) or text
default_before_write_or(r, text) ==
    IF r.exc # "none" THEN r
    ELSE IF Truthy(r.val) THEN r ELSE Ok(text)

default_before_write(c, text) ==
    IF ~Truthy(text) THEN Ok(text)
    ELSE default_before_write_or(CallType(c.type, text), text)

\* try: text and cell.type(text)  except (TypeError, ValueError): text
default_after_read_except(r, text) ==
    IF r.exc \in {"TypeError", "ValueError"} THEN Ok(text) ELSE r

default_after_read(c, text) ==
    IF ~Truthy(text) THEN Ok(text)
    ELSE default_after_read_except(CallType(c.type, text), text)

\* tests: backwards = text[::-1], upper = text.upper(), lower = text.lower()
CallHook(h, c, v) ==
    CASE h = "default_before_write" -> default_before_write(c, v)
      [] h = "default_after_read" -> default_after_read(c, v)
      [] h = "backwards" -> IF v.t = "str" THEN Ok(PyStr(Reverse(v.s))) ELSE Raise("TypeError")
      [] h = "upper" -> IF v.t = "str" THEN Ok(PyStr([k \in 1..Len(v.s) |-> Upper(v.s[k])]))
                        ELSE Raise("AttributeError")
      [] h = "lower" -> IF v.t = "str" THEN Ok(PyStr([k \in 1..Len(v.s) |-> Lower(v.s[k])]))
                        ELSE Raise("AttributeError")
      [] OTHER -> Raise("RuntimeError")

----------------------------------------------------------------------------
(* PFFCell and its variants *)

DEFAULT_STR_FILLER_CHAR == " "
DEFAULT_INT_FILLER_CHAR == "0"

\* PFFCell.__init__: align and filler fall back to the defaults of the type
PFFCell(name, length, type, filler, align, default, truncator, before_write, after_read) ==
    [cls |-> "PFFCell",
     name |-> name,
     length |-> length,
     type |-> type,
     filler |-> IF filler = PyNone \/ Len(filler.s) # 1
                THEN (IF is_numerical(type) THEN DEFAULT_INT_FILLER_CHAR
                      ELSE DEFAULT_STR_FILLER_CHAR)
                ELSE filler.s[1],
     align |-> IF align \notin {"l", "r"}
               THEN (IF is_numerical(type) THEN "r" ELSE "l")
               ELSE align,
     default |-> default,
     truncator |-> truncator,
     before_write |-> before_write,
     after_read |-> after_read]

\* PFFBlankCell.__init__
PFFBlankCell(length, name, filler) ==
    [PFFCell(IF name = PyNone THEN "BLANK" ELSE name.s, length, "NoneType", filler, "None",
             PyNone, "default_truncator", "None", "None")
     EXCEPT !.cls = "PFFBlankCell"]

\* PFFIntCell.__init__
PFFIntCell(name, length, align, default, truncator, before_write, after_read) ==
    [PFFCell(name, length, "int", PyNone, align, default, truncator, before_write, after_read)
     EXCEPT !.cls = "PFFIntCell"]

\* PFFIntSpaceCell inherits the constructor of PFFIntCell
PFFIntSpaceCell(name, length, align, default, truncator, before_write, after_read) ==
    [PFFIntCell(name, length, align, default, truncator, before_write, after_read)
     EXCEPT !.cls = "PFFIntSpaceCell"]

\* The outcome of a cell write: exc is "none" on a normal return, out the
\* returned text, text the content handed to _justify (<<>> before that
\* point), hooks the before_write hooks called, filler the cell's stored
\* filler when the call ends, carried the content and cell name a raised
\* ContentOverflow holds.
NoPayload == [content |-> <<>>, cell |-> ""]

WriteResult(exc, out, text, justified, hooks, filler, carried) ==
    [exc |-> exc, out |-> out, text |-> text, justified |-> justified,
     hooks |-> hooks, filler |-> filler, carried |-> carried]

\* PFFCell._justify, the padding: content.ljust / content.rjust with the
\* filler the cell holds at that moment; t is the outcome of the truncation
PFFCell_justify_pad(c, t) ==
    IF t.exc # "none" THEN t
    ELSE IF c.align = "l" THEN Ok(PyStr(ljust(t.val.s, c.length, c.filler)))
    ELSE Ok(PyStr(rjust(t.val.s, c.length, c.filler)))

\* PFFCell._justify
PFFCell_justify(c, content, autotruncate) ==
    PFFCell_justify_pad(c, IF autotruncate THEN CallTruncator(c.truncator, content, c.length)
                           ELSE IF Len(content) > c.length THEN ContentOverflow(content, c)
                           ELSE Ok(PyStr(content)))

\* the outcome r of a _justify together with self.filler when the method is left
Justified(r, filler) == [exc |-> r.exc, val |-> r.val, filler |-> filler]

\* PFFIntSpaceCell._justify, the blank branch after the inherited _justify:
\* self.filler = DEFAULT_INT_FILLER_CHAR is reached only when it returned
PFFIntSpaceCell_justify_reset(r) ==
    Justified(r, IF r.exc # "none" THEN DEFAULT_STR_FILLER_CHAR ELSE DEFAULT_INT_FILLER_CHAR)

\* PFFIntSpaceCell._justify
PFFIntSpaceCell_justify(c, content, autotruncate) ==
    IF content # <<>>
    THEN Justified(PFFCell_justify(c, content, autotruncate), c.filler)
    ELSE PFFIntSpaceCell_justify_reset(
             PFFCell_justify([c EXCEPT !.filler = DEFAULT_STR_FILLER_CHAR], content,
                             autotruncate))

\* self._justify(...), dispatched on the class of the cell
Justify(c, content, autotruncate) ==
    IF c.cls = "PFFIntSpaceCell" THEN PFFIntSpaceCell_justify(c, content, autotruncate)
    ELSE Justified(PFFCell_justify(c, content, autotruncate), c.filler)

\* {}
EmptyDict == [k \in {} |-> PyNone]

\* vals.get(name, default)
DictGet(vals, name, default) == IF name \in DOMAIN vals THEN vals[name] ELSE default

\* a precedence in which the caller's hook wins over the cell's own
ChooseBeforeWrite_caller_first(c, before_write) ==
    IF before_write # "None" THEN before_write
    ELSE IF c.before_write # "None" THEN c.before_write
    ELSE "default_before_write"

\* self._before_write or before_write or default_before_write
ChooseBeforeWrite(c, before_write) ==
    IF c.before_write # "None" THEN c.before_write
    ELSE IF before_write # "None" THEN before_write
    ELSE "default_before_write"

\* self._after_read or after_read or default_after_read
ChooseAfterRead(c, after_read) ==
    IF c.after_read # "None" THEN c.after_read
    ELSE IF after_read # "None" THEN after_read
    ELSE "default_after_read"

\* if content_val is None: content_val = self.default
NoneToDefault(c, content_val) == IF content_val = PyNone THEN c.default ELSE content_val

\* the value PFFCell.write resolves before any hook runs
ResolveValue(c, vals) == NoneToDefault(c, DictGet(vals, c.name, c.default))

\* unicode(content_val or "")
ContentStr(content_val) == unicode(IF Truthy(content_val) THEN content_val ELSE PyStr(<<>>))

\* PFFCell.write, the return: j is the outcome of self._justify(content_str)
PFFCell_write_return(c, hook, content_str, j) ==
    WriteResult(j.exc, IF j.exc = "none" THEN j.val.s ELSE <<>>, content_str, TRUE,
                <<hook>>, j.filler,
                IF j.exc = "ContentOverflow" THEN [content |-> j.val.s, cell |-> c.name]
                ELSE NoPayload)

\* PFFCell.write from content_str on
PFFCell_write_text(c, autotruncate, hook, content_str) ==
    PFFCell_write_return(c, hook, content_str, Justify(c, content_str, autotruncate))

\* PFFCell.write after the hook was called: hooked is its outcome
PFFCell_write_hooked(c, autotruncate, hook, hooked) ==
    IF hooked.exc # "none"
    THEN WriteResult(hooked.exc, <<>>, <<>>, FALSE, <<hook>>, c.filler, NoPayload)
    ELSE PFFCell_write_text(c, autotruncate, hook, ContentStr(hooked.val))

\* PFFCell.write with the hook chosen
PFFCell_write_with(c, vals, autotruncate, hook) ==
    PFFCell_write_hooked(c, autotruncate, hook, CallHook(hook, c, ResolveValue(c, vals)))

\* PFFCell.write
PFFCell_write(c, vals, autotruncate, before_write) ==
    PFFCell_write_with(c, vals, autotruncate, ChooseBeforeWrite(c, before_write))

\* PFFBlankCell.write
PFFBlankCell_write(c, vals, autotruncate, before_write) ==
    WriteResult("none", Repeat(c.filler, c.length), <<>>, FALSE, <<>>, c.filler, NoPayload)

\* cell.write(...), dispatched on the class of the cell
CellWrite(c, vals, autotruncate, before_write) ==
    IF c.cls = "PFFBlankCell" THEN PFFBlankCell_write(c, vals, autotruncate, before_write)
    ELSE PFFCell_write(c, vals, autotruncate, before_write)

\* The outcome of a cell read: rest is the returned remainder of the line,
\* dest the row map after the call, hooks the after_read hooks called,
\* filler the cell's stored filler when the call ends.
ReadResult(exc, rest, dest, hooks, filler) ==
    [exc |-> exc, rest |-> rest, dest |-> dest, hooks |-> hooks, filler |-> filler]

\* dest[name] = value
DictSet(dest, name, value) == (name :> value) @@ dest

\* if not cur_field_val: cur_field_val = None
EmptyToNone(x) == IF x = <<>> THEN PyNone ELSE PyStr(x)

\* PFFCell.read up to the hook: the slice of the cell, stripped of the filler
StrippedValue(c, line) ==
    EmptyToNone(IF c.align = "r" THEN lstrip(SliceTo(line, c.length), c.filler)
                ELSE rstrip(SliceTo(line, c.length), c.filler))

\* PFFCell.read after the hook was called: hooked is its outcome
PFFCell_read_hooked(c, line, dest, hook, hooked) ==
    IF hooked.exc # "none"
    THEN ReadResult(hooked.exc, <<>>, dest, <<hook>>, c.filler)
    ELSE ReadResult("none", SliceFrom(line, c.length), DictSet(dest, c.name, hooked.val),
                    <<hook>>, c.filler)

\* PFFCell.read with the hook chosen
PFFCell_read_with(c, line, dest, hook) ==
    PFFCell_read_hooked(c, line, dest, hook, CallHook(hook, c, StrippedValue(c, line)))

\* PFFCell.read
PFFCell_read(c, line, dest, after_read) ==
    PFFCell_read_with(c, line, dest, ChooseAfterRead(c, after_read))

\* PFFBlankCell.read
PFFBlankCell_read(c, line, dest, after_read) ==
    ReadResult("none", SliceFrom(line, c.length), dest, <<>>, c.filler)

\* PFFIntSpaceCell.read: the filler is reset only when the inherited read returns
PFFIntSpaceCell_read_reset(r) ==
    ReadResult(r.exc, r.rest, r.dest, r.hooks,
               IF r.exc # "none" THEN DEFAULT_STR_FILLER_CHAR ELSE DEFAULT_INT_FILLER_CHAR)

\* PFFIntSpaceCell.read
PFFIntSpaceCell_read(c, line, dest, after_read) ==
    PFFIntSpaceCell_read_reset(
        PFFCell_read([c EXCEPT !.filler = DEFAULT_STR_FILLER_CHAR], line, dest, after_read))

\* cell.read(...), dispatched on the class of the cell
CellRead(c, line, dest, after_read) ==
    CASE c.cls = "PFFBlankCell" -> PFFBlankCell_read(c, line, dest, after_read)
      [] c.cls = "PFFIntSpaceCell" -> PFFIntSpaceCell_read(c, line, dest, after_read)
      [] OTHER -> PFFCell_read(c, line, dest, after_read)

----------------------------------------------------------------------------
(* PFFLine: a list of cells *)

CellClasses == {"PFFCell", "PFFBlankCell", "PFFIntCell", "PFFIntSpaceCell"}

\* isinstance(x, PFFCell) and isinstance(x, PFFLine)
IsCell(x) == x.cls \in CellClasses
IsLine(x) == x.cls = "PFFLine"

\* a PFFLine object holding the list `cells`
Line(cells) == [cls |-> "PFFLine", cells |-> cells]

\* an append that stores a PFFLine as one element instead of splicing it
PFFLine_append_nested(self, object) ==
    IF IsCell(object) \/ IsLine(object) THEN Ok(Line(Append(self.cells, object)))
    ELSE Raise("TypeError")

\* PFFLine.append
PFFLine_append(self, object) ==
    IF IsCell(object) THEN Ok(Line(Append(self.cells, object)))
    ELSE IF IsLine(object) THEN Ok(Line(self.cells \o object.cells))
    ELSE Raise("TypeError")

\* PFFLine.__init__, the body of the loop: a cell is appended, a line is
\* spliced in, anything else is passed over
PFFLine_init_elem(self, elem) ==
    IF IsCell(elem) THEN PFFLine_append(self, elem).val
    ELSE IF IsLine(elem) THEN Line(self.cells \o elem.cells)
    ELSE self

\* PFFLine.__init__: the loop over elems, self being the list built so far
RECURSIVE PFFLine_init_loop(_, _)
PFFLine_init_loop(self, elems) ==
    IF elems = <<>> THEN self
    ELSE PFFLine_init_loop(PFFLine_init_elem(self, Head(elems)), Tail(elems))

\* PFFLine(*elems)
PFFLine(elems) == PFFLine_init_loop(Line(<<>>), elems)

\* PFFLine.__add__
PFFLine_add(self, other) ==
    IF IsLine(other) \/ IsCell(other) THEN Ok(PFFLine(<<self, other>>))
    ELSE Raise("TypeError")

\* PFFLine.__iadd__
PFFLine_iadd(self, other) == PFFLine_append(self, other)

\* PFFCell.__add__
PFFCell_add(self, other) ==
    IF IsCell(other) \/ IsLine(other) THEN Ok(PFFLine(<<self, other>>))
    ELSE Raise("TypeError")

\* a + b, dispatched on the class of a
Plus(a, b) == IF IsLine(a) THEN PFFLine_add(a, b) ELSE PFFCell_add(a, b)

\* len(x) of a cell or a line
PyLen(x) == IF IsLine(x) THEN Len(x.cells) ELSE x.length

\* PFFCell.__eq__: self.name == getattr(other, 'name', False) and len(self) == len(other)
PFFCell_eq(self, other) ==
    /\ IsCell(other)
    /\ self.name = other.name
    /\ self.length = PyLen(other)

\* s == o for two elements of lines
ElemEq(x, y) == IF IsCell(x) THEN PFFCell_eq(x, y)
                ELSE IF IsCell(y) THEN PFFCell_eq(y, x)
                ELSE x = y

\* PFFLine.__eq__
PFFLine_eq(self, other) ==
    /\ Len(self.cells) = Len(other.cells)
    /\ \A k \in 1..Len(self.cells) : ElemEq(self.cells[k], other.cells[k])

\* bool(x) of an optional PFFLine: None and the empty list are falsy
LineTruthy(x) == x # PyNone /\ x.cells # <<>>

\* PFFLine.write: the loop over the cells, `line` being the text built so far
RECURSIVE PFFLine_write_loop(_, _, _, _, _)

\* PFFLine.write, the body of the loop: r is the outcome of cell.write; an
\* exception is printed with the name of the cell and raised again
PFFLine_write_cell(cells, line, vals, autotruncate, before_write, r) ==
    IF r.exc # "none"
    THEN [exc |-> r.exc, out |-> <<>>, printed |-> Head(cells).name, carried |-> r.carried]
    ELSE PFFLine_write_loop(Tail(cells), line \o r.out, vals, autotruncate, before_write)

PFFLine_write_loop(cells, line, vals, autotruncate, before_write) ==
    IF cells = <<>> THEN [exc |-> "none", out |-> line, printed |-> "", carried |-> NoPayload]
    ELSE PFFLine_write_cell(cells, line, vals, autotruncate, before_write,
                            CellWrite(Head(cells), vals, autotruncate, before_write))

\* PFFLine.write
PFFLine_write(self, vals, autotruncate, before_write) ==
    PFFLine_write_loop(self.cells, <<>>, vals, autotruncate, before_write)

\* PFFLine.read: the loop over the cells
RECURSIVE PFFLine_read_loop(_, _, _, _)

\* PFFLine.read, the body of the loop: r is the outcome of cell.read
PFFLine_read_cell(cells, after_read, r) ==
    IF r.exc # "none" THEN [exc |-> r.exc, res |-> r.dest]
    ELSE PFFLine_read_loop(Tail(cells), r.rest, r.dest, after_read)

PFFLine_read_loop(cells, line, res, after_read) ==
    IF cells = <<>> THEN [exc |-> "none", res |-> res]
    ELSE PFFLine_read_cell(cells, after_read, CellRead(Head(cells), line, res, after_read))

\* PFFLine.read
PFFLine_read(self, line, after_read) ==
    PFFLine_read_loop(self.cells, line, EmptyDict, after_read)

----------------------------------------------------------------------------
(* PFFWriter and PFFReader *)

EOF_LF == <<"\n">>

\* PFFWriter.__init__; chooser names the chose_line_model in force
PFFWriter(lines, autotruncate, before_write, eof, chooser) ==
    [lines |-> lines, lcount |-> 0, autotruncate |-> autotruncate,
     before_write |-> before_write, eof |-> eof, chooser |-> chooser]

\* PFFReader.__init__
PFFReader(lines, after_read, chooser) ==
    [lines |-> lines, lcount |-> 0, after_read |-> after_read, chooser |-> chooser]

\* chose_line_model of a writer or reader: self._lines[0], or the replacement
\* of the tests, self._lines[1]
ListItem(list, k) == IF k < Len(list) THEN Ok(list[k + 1]) ELSE Raise("IndexError")

chose_line_model(self) == ListItem(self.lines, IF self.chooser = "default" THEN 0 ELSE 1)

\* line_model or self.chose_line_model(...)
ResolveLineModel(self, line_model) ==
    IF LineTruthy(line_model) THEN Ok(line_model) ELSE chose_line_model(self)

\* encode(string, encoding): the text is handed on unchanged
encode(string) == string

\* PFFWriter.writerow: the writer and the file after the call, and how it ended
WriterResult(exc, self, file, used, printed) ==
    [exc |-> exc, self |-> self, file |-> file, used |-> used, printed |-> printed]

\* a writerow that counts the row before line_model.write has ended
PFFWriter_writerow_counted_first(self, file, line_model, w) ==
    IF w.exc # "none"
    THEN WriterResult(w.exc, [self EXCEPT !.lcount = self.lcount + 1], file, line_model,
                      w.printed)
    ELSE WriterResult("none", [self EXCEPT !.lcount = self.lcount + 1],
                      Append(file, encode(w.out \o self.eof)), line_model, "")

\* PFFWriter.writerow once line_model.write has ended with outcome w
PFFWriter_writerow_written(self, file, line_model, w) ==
    IF w.exc # "none" THEN WriterResult(w.exc, self, file, line_model, w.printed)
    ELSE WriterResult("none", [self EXCEPT !.lcount = self.lcount + 1],
                      Append(file, encode(w.out \o self.eof)), line_model, "")

\* PFFWriter.writerow once the line model is resolved, m being the outcome
PFFWriter_writerow_with(self, file, vals, m) ==
    IF m.exc # "none" THEN WriterResult(m.exc, self, file, PyNone, "")
    ELSE PFFWriter_writerow_written(
             self, file, m.val,
             PFFLine_write(m.val, vals, self.autotruncate, self.before_write))

PFFWriter_writerow(self, file, vals, line_model) ==
    PFFWriter_writerow_with(self, file, vals, ResolveLineModel(self, line_model))

\* file.readline(): the next raw line, or "" when the source is exhausted
FileReadline(file) ==
    IF file.pos < Len(file.lines)
    THEN [line |-> file.lines[file.pos + 1], file |-> [file EXCEPT !.pos = file.pos + 1]]
    ELSE [line |-> <<>>, file |-> file]

\* PFFReader.readline: ret is the returned row map, isNone telling None apart
ReaderResult(exc, isNone, ret, self, file, exhausted, used) ==
    [exc |-> exc, isNone |-> isNone, ret |-> ret, self |-> self, file |-> file,
     exhausted |-> exhausted, used |-> used]

\* PFFReader.readline from self.lcount += 1 on: r is the outcome of
\* line_model.read
PFFReader_readline_read(self, file, line_model, r) ==
    IF r.exc # "none" THEN ReaderResult(r.exc, FALSE, EmptyDict, self, file, FALSE, line_model)
    ELSE ReaderResult("none", FALSE, r.res, self, file, FALSE, line_model)

\* PFFReader.readline once the line model is resolved, m being the outcome
PFFReader_readline_with(self, file, line, m) ==
    IF m.exc # "none" THEN ReaderResult(m.exc, FALSE, EmptyDict, self, file, FALSE, PyNone)
    ELSE PFFReader_readline_read([self EXCEPT !.lcount = self.lcount + 1], file, m.val,
                                 PFFLine_read(m.val, line, self.after_read))

\* PFFReader.readline after self._file.readline() returned f.line
PFFReader_readline_line(self, f, line_model) ==
    IF f.line = <<>> THEN ReaderResult("none", TRUE, EmptyDict, self, f.file, TRUE, PyNone)
    ELSE PFFReader_readline_with(self, f.file, f.line, ResolveLineModel(self, line_model))

PFFReader_readline(self, file, line_model) ==
    PFFReader_readline_line(self, FileReadline(file), line_model)

\* PFFReader.__next__ after self.readline() ended with outcome r:
\* `if not line: raise StopIteration`
PFFReader_next_line(r) ==
    IF r.exc = "none" /\ (r.isNone \/ DOMAIN r.ret = {})
    THEN ReaderResult("StopIteration", r.isNone, r.ret, r.self, r.file, r.exhausted, r.used)
    ELSE r

\* PFFReader.__next__
PFFReader_next(self, file) == PFFReader_next_line(PFFReader_readline(self, file, PyNone))

----------------------------------------------------------------------------
(* Inputs *)

Chars == {"0", "1", " ", "a"}

RECURSIVE TextsOfLen(_)
TextsOfLen(n) == IF n = 0 THEN {<<>>}
                 ELSE {<<ch>> \o x : ch \in Chars, x \in TextsOfLen(n - 1)}

Texts == UNION {TextsOfLen(n) : n \in 0..MaxText}

Lengths == 1..MaxLength

IntValues == {-1, 0, 1, 10, 100}

Values == {PyNone} \cup {PyInt(n) : n \in IntValues} \cup {PyStr(x) : x \in Texts}

\* truncator, before_write and after_read of a cell
CellHooks == {<<"default_truncator", "None", "None">>,
              <<"three_dots", "None", "None">>,
              <<"raising", "None", "None">>,
              <<"default_truncator", "backwards", "backwards">>,
              <<"default_truncator", "raising", "raising">>}

Defaults == {PyNone, PyInt(7)}

Cells ==
    {PFFCell("n", l, ty, f, a, d, h[1], h[2], h[3]) :
        l \in Lengths, ty \in {"unicode", "int"}, f \in {PyNone, PyStr(<<"#">>)},
        a \in {"None", "l", "r"}, d \in Defaults, h \in CellHooks}
    \cup {PFFIntCell("n", l, a, d, h[1], h[2], h[3]) :
        l \in Lengths, a \in {"None", "l", "r"}, d \in Defaults, h \in CellHooks}
    \cup {PFFIntSpaceCell("n", l, a, d, h[1], h[2], h[3]) :
        l \in Lengths, a \in {"None", "l", "r"}, d \in Defaults, h \in CellHooks}
    \cup {PFFBlankCell(l, nm, f) :
        l \in Lengths, nm \in {PyNone, PyStr("n")}, f \in {PyStr(<<" ">>), PyStr(<<"#">>)}}

----------------------------------------------------------------------------
(* One cell, written to and read from *)

NoWrite == [done |-> FALSE]
NoRead == [done |-> FALSE]

\* the variables of the other specifications, parked
CellOff == cell = PyNone /\ wr = NoWrite /\ rd = NoRead
RaceOff == rcell = PyNone /\ th = <<>>
LineOff == sums = [done |-> FALSE] /\ acc = PyNone /\ flat = <<>>
ReaderOff == reader = PyNone /\ rfile = PyNone /\ rlast = [done |-> FALSE]
WriterOff == writer = PyNone /\ sink = <<>> /\ wlast = [done |-> FALSE]

InitCell ==
    /\ cell \in Cells
    /\ wr = NoWrite
    /\ rd = NoRead
    /\ RaceOff /\ LineOff /\ ReaderOff /\ WriterOff

\* cell.write(vals, autotruncate, before_write)
Written(vals, autotruncate, before_write, res) ==
    /\ wr' = [done |-> TRUE, vals |-> vals, autotruncate |-> autotruncate,
              before_write |-> before_write, resolved |-> ResolveValue(cell, vals),
              res |-> res]
    /\ cell' = [cell EXCEPT !.filler = res.filler]
    /\ rd' = NoRead

Write(vals, autotruncate, before_write) ==
    Written(vals, autotruncate, before_write, CellWrite(cell, vals, autotruncate, before_write))

\* cell.read(line, {}, after_read)
WasRead(line, after_read, back, res) ==
    /\ rd' = [done |-> TRUE, line |-> line, after_read |-> after_read, back |-> back,
              res |-> res]
    /\ cell' = [cell EXCEPT !.filler = res.filler]

Read(line, after_read, back) ==
    WasRead(line, after_read, back, CellRead(cell, line, EmptyDict, after_read))

DoWrite ==
    \E v \in Values, present \in BOOLEAN, autotruncate \in BOOLEAN,
       before_write \in {"None", "upper"} :
        /\ ~wr.done /\ ~rd.done
        /\ present \/ v = PyNone
        /\ Write(IF present THEN ("n" :> v) ELSE EmptyDict, autotruncate, before_write)
        /\ UNCHANGED <<raceVars, lineVars, readerVars, writerVars>>

DoRead ==
    \E line \in Texts, after_read \in {"None", "lower"} :
        /\ ~wr.done /\ ~rd.done
        /\ Read(line, after_read, FALSE)
        /\ UNCHANGED <<wr, raceVars, lineVars, readerVars, writerVars>>

\* read back what the last write returned
DoReadBack ==
    \E after_read \in {"None", "lower"} :
        /\ wr.done /\ wr.res.exc = "none"
        /\ ~rd.done
        /\ Read(wr.res.out, after_read, TRUE)
        /\ UNCHANGED <<wr, raceVars, lineVars, readerVars, writerVars>>

\* the caller drops the result; the cell object lives on
Return ==
    /\ wr.done \/ rd.done
    /\ wr' = NoWrite
    /\ rd' = NoRead
    /\ UNCHANGED <<cell, raceVars, lineVars, readerVars, writerVars>>

NextCell == DoWrite \/ DoRead \/ DoReadBack \/ Return

SpecCell == InitCell /\ [][NextCell]_vars

----------------------------------------------------------------------------
(* Claims about one cell, under SpecCell *)

HasText(x, ch) == \E k \in 1..Len(x) : x[k] = ch

\* C1: every cell write that returns yields a text of exactly `length`
\* characters, whatever the truncator.
C1_WriteLengthIsWidth ==
    (wr.done /\ wr.res.exc = "none") => Len(wr.res.out) = cell.length

\* C2: a content longer than the cell raises ContentOverflow, carrying the
\* content and the cell, when autotruncate is off, and no text is returned;
\* with autotruncate on and the default truncator the write returns the first
\* `length` characters of the content.
C2_OverflowPolicy ==
    (wr.done /\ wr.res.justified /\ Len(wr.res.text) > cell.length) =>
        /\ ~wr.autotruncate =>
              /\ wr.res.exc = "ContentOverflow"
              /\ wr.res.out = <<>>
              /\ wr.res.carried = [content |-> wr.res.text, cell |-> cell.name]
        /\ (wr.autotruncate /\ cell.truncator = "default_truncator") =>
              /\ wr.res.exc = "none"
              /\ wr.res.out = SubSeq(wr.res.text, 1, cell.length)

\* C2 witness: an over-long content was cut to its prefix by a write with
\* autotruncate on.
C2_Witness ==
    /\ wr.done /\ wr.res.justified /\ Len(wr.res.text) > cell.length
    /\ wr.autotruncate /\ cell.truncator = "default_truncator"
    /\ wr.res.exc = "none"
    /\ wr.res.out # Repeat(wr.res.out[1], cell.length)

\* the value is of the kind of the cell
OfKind(c, v) == (c.type = "unicode" /\ v.t = "str") \/ (c.type = "int" /\ v.t = "int")

\* C3: with no hook on the cell or from the caller, a value of the cell's kind
\* whose text form holds no filler character is read back, from what write
\* returned, equal to itself.
C3_RoundTrip ==
    (/\ rd.done /\ rd.back
     /\ cell.cls # "PFFBlankCell"
     /\ cell.before_write = "None" /\ cell.after_read = "None"
     /\ wr.before_write = "None" /\ rd.after_read = "None"
     /\ "n" \in DOMAIN wr.vals
     /\ OfKind(cell, wr.vals["n"])
     /\ ~HasText(unicode(wr.vals["n"]), cell.filler))
    => /\ rd.res.exc = "none"
       /\ "n" \in DOMAIN rd.res.dest
       /\ rd.res.dest["n"] = wr.vals["n"]

\* C6: once a write or read of a PFFIntSpaceCell has ended, normally or by
\* an exception, the stored filler of the cell is '0'.
C6_FillerRestored ==
    (cell.cls = "PFFIntSpaceCell" /\ (wr.done \/ rd.done)) => cell.filler = "0"

\* C7: a PFFIntSpaceCell writes `length` spaces exactly when the resolved
\* value is None, and every present integer, 0 included, as its decimal text
\* left-padded with '0'.
C7_SpaceIffAbsent ==
    (/\ wr.done /\ wr.res.exc = "none"
     /\ cell.cls = "PFFIntSpaceCell" /\ cell.align = "r"
     /\ cell.truncator = "default_truncator"
     /\ cell.before_write = "None" /\ wr.before_write = "None"
     /\ wr.resolved.t \in {"none", "int"}
     /\ Len(unicode(wr.resolved)) <= cell.length \/ wr.resolved = PyNone)
    => /\ (wr.res.out = Repeat(" ", cell.length)) <=> (wr.resolved = PyNone)
       /\ wr.resolved.t = "int" =>
              wr.res.out = rjust(IntToText(wr.resolved.i), cell.length, "0")

ExpectedBeforeWrite ==
    IF cell.before_write # "None" THEN cell.before_write
    ELSE IF wr.before_write # "None" THEN wr.before_write
    ELSE "default_before_write"

ExpectedAfterRead ==
    IF cell.after_read # "None" THEN cell.after_read
    ELSE IF rd.after_read # "None" THEN rd.after_read
    ELSE "default_after_read"

\* C8: PFFCell.write calls exactly one before_write hook and PFFCell.read
\* exactly one after_read hook: the cell's own if it has one, else the
\* caller's, else the default; the returned text and the stored value are
\* those that this hook yields.
C8_HookPrecedence ==
    /\ (wr.done /\ cell.cls # "PFFBlankCell") =>
          /\ wr.res.hooks = <<ExpectedBeforeWrite>>
          /\ LET h == CallHook(ExpectedBeforeWrite, cell, wr.resolved)
             IN IF h.exc # "none" THEN wr.res.exc = h.exc
                ELSE wr.res.justified /\
                     wr.res.text = unicode(IF Truthy(h.val) THEN h.val ELSE PyStr(<<>>))
    /\ (rd.done /\ cell.cls # "PFFBlankCell") =>
          /\ rd.res.hooks = <<ExpectedAfterRead>>
          /\ rd.res.exc = "none" => "n" \in DOMAIN rd.res.dest

\* C8 witness: a cell with its own before_write hook was written by a caller
\* that supplied another one, and the write returned.
C8_Witness ==
    /\ wr.done /\ wr.res.exc = "none"
    /\ cell.before_write = "backwards" /\ wr.before_write = "upper"
    /\ wr.res.text # <<>> /\ wr.res.text # Reverse(wr.res.text)

----------------------------------------------------------------------------
(* Two threads on one PFFIntSpaceCell.  A thread is preempted only where   *)
(* the stored filler is written or read: PFFIntSpaceCell._justify and      *)
(* PFFIntSpaceCell.read assign self.filler, and PFFCell._justify and       *)
(* PFFCell.read fetch it when they pad or strip.                           *)

Threads == {1, 2}

Idle == [pc |-> "idle", op |-> "none", v |-> PyNone, content |-> <<>>, line |-> <<>>,
         exc |-> "none", out |-> <<>>, dest |-> EmptyDict]

RaceValues == {PyNone} \cup {PyInt(n) : n \in IntValues}

InitRace ==
    /\ rcell \in {PFFIntSpaceCell("n", l, "None", PyNone, "default_truncator", "None", "None") :
                    l \in Lengths}
    /\ th = [t \in Threads |-> Idle]
    /\ CellOff /\ LineOff /\ ReaderOff /\ WriterOff

\* PFFCell.write up to the call of self._justify, and the test `if content:`
\* of PFFIntSpaceCell._justify
RaceContent(t, v, content_str) ==
    /\ th' = [th EXCEPT ![t] = [Idle EXCEPT !.pc = IF content_str # <<>> THEN "pad"
                                                  ELSE "set_space",
                                            !.op = "write", !.v = v,
                                            !.content = content_str]]
    /\ UNCHANGED <<rcell, cellVars, lineVars, readerVars, writerVars>>

RaceBeginWrite(t) ==
    \E v \in RaceValues :
        /\ th[t].pc = "idle"
        /\ RaceContent(t, v, ContentStr(default_before_write(rcell,
                                                             ResolveValue(rcell, "n" :> v)).val))

\* PFFIntSpaceCell._justify: return super()._justify(content, autotruncate)
RacePadded(t, r, next) ==
    /\ th' = [th EXCEPT ![t].pc = next, ![t].exc = r.exc, ![t].out = r.val.s]
    /\ UNCHANGED <<rcell, cellVars, lineVars, readerVars, writerVars>>

RacePad(t) ==
    /\ th[t].pc = "pad"
    /\ RacePadded(t, PFFCell_justify(rcell, th[t].content, TRUE), "done")

\* PFFIntSpaceCell._justify: self.filler = DEFAULT_STR_FILLER_CHAR
RaceSetSpace(t) ==
    /\ th[t].pc = "set_space"
    /\ rcell' = [rcell EXCEPT !.filler = DEFAULT_STR_FILLER_CHAR]
    /\ th' = [th EXCEPT ![t].pc = "pad_blank"]
    /\ UNCHANGED <<cellVars, lineVars, readerVars, writerVars>>

\* PFFIntSpaceCell._justify: value = super()._justify(content, autotruncate)
RacePadBlank(t) ==
    /\ th[t].pc = "pad_blank"
    /\ RacePadded(t, PFFCell_justify(rcell, th[t].content, TRUE), "reset")

\* PFFIntSpaceCell.read: self.filler = DEFAULT_STR_FILLER_CHAR
RaceBeginRead(t) ==
    \E line \in Texts :
        /\ th[t].pc = "idle"
        /\ rcell' = [rcell EXCEPT !.filler = DEFAULT_STR_FILLER_CHAR]
        /\ th' = [th EXCEPT ![t] = [Idle EXCEPT !.pc = "strip", !.op = "read", !.line = line]]
        /\ UNCHANGED <<cellVars, lineVars, readerVars, writerVars>>

\* PFFIntSpaceCell.read: result = super().read(line, dest, after_read)
RaceStripped(t, r) ==
    /\ th' = [th EXCEPT ![t].pc = "reset", ![t].exc = r.exc, ![t].out = r.rest,
                        ![t].dest = r.dest]
    /\ UNCHANGED <<rcell, cellVars, lineVars, readerVars, writerVars>>

RaceStrip(t) ==
    /\ th[t].pc = "strip"
    /\ RaceStripped(t, PFFCell_read(rcell, th[t].line, EmptyDict, "None"))

\* self.filler = DEFAULT_INT_FILLER_CHAR, and the return
RaceReset(t) ==
    /\ th[t].pc = "reset"
    /\ rcell' = [rcell EXCEPT !.filler = DEFAULT_INT_FILLER_CHAR]
    /\ th' = [th EXCEPT ![t].pc = "done"]
    /\ UNCHANGED <<cellVars, lineVars, readerVars, writerVars>>

\* the caller takes the result; the thread is free for another call
RaceReturn(t) ==
    /\ th[t].pc = "done"
    /\ th' = [th EXCEPT ![t] = Idle]
    /\ UNCHANGED <<rcell, cellVars, lineVars, readerVars, writerVars>>

NextRace ==
    \E t \in Threads :
        \/ RaceBeginWrite(t)
        \/ RacePad(t)
        \/ RaceSetSpace(t)
        \/ RacePadBlank(t)
        \/ RaceBeginRead(t)
        \/ RaceStrip(t)
        \/ RaceReset(t)
        \/ RaceReturn(t)

SpecRace == InitRace /\ [][NextRace]_vars

\* C5: whatever another operation on the same PFFIntSpaceCell is doing, the
\* write of a present integer v yields v left-padded with '0'.  (Stated for
\* the integers other than 0 whose text fits the cell: 0 and truncation are
\* the business of C7 and C2.)
C5_ToggleNotObservable ==
    \A t \in Threads :
        (/\ th[t].pc = "done" /\ th[t].op = "write" /\ th[t].exc = "none"
         /\ th[t].v.t = "int" /\ th[t].v.i # 0
         /\ Len(IntToText(th[t].v.i)) <= rcell.length)
        => th[t].out = rjust(IntToText(th[t].v.i), rcell.length, "0")

----------------------------------------------------------------------------
(* Composition of cells and lines *)

\* the cells of the tests, shortened
name_cell == PFFCell("name", 2, "unicode", PyNone, "None", PyNone,
                     "default_truncator", "None", "None")
age_cell == PFFCell("age", 1, "int", PyNone, "None", PyNone,
                    "default_truncator", "None", "None")
score_cell == PFFCell("score", 2, "int", PyStr(<<"#">>), "l", PyInt(7),
                      "default_truncator", "None", "None")

ComposeCells == {name_cell, age_cell, score_cell}

RECURSIVE SeqsOfLen(_, _)
SeqsOfLen(S, n) == IF n = 0 THEN {<<>>}
                   ELSE {<<x>> \o q : x \in S, q \in SeqsOfLen(S, n - 1)}

SeqsUpTo(S, n) == UNION {SeqsOfLen(S, k) : k \in 0..n}

\* what may stand on either side of + : a cell, or a PFFLine of cells
Operands == ComposeCells \cup {Line(q) : q \in SeqsUpTo(ComposeCells, MaxOperandCells)}

\* the cells an operand brings, in order
CellsOf(x) == IF IsCell(x) THEN <<x>> ELSE x.cells

InitLine ==
    /\ sums = [done |-> FALSE]
    /\ acc = Line(<<>>)
    /\ flat = <<>>
    /\ CellOff /\ RaceOff /\ ReaderOff /\ WriterOff

Fresh == ~sums.done /\ acc = Line(<<>>)

\* (a + b) + c, a + (b + c) and PFFLine(a, b, c)
Compose ==
    \E a \in Operands, b \in Operands, c \in Operands :
        /\ Fresh
        /\ sums' = [done |-> TRUE, a |-> a, b |-> b, c |-> c,
                    left |-> Plus(Plus(a, b).val, c).val,
                    right |-> Plus(a, Plus(b, c).val).val,
                    direct |-> PFFLine(<<a, b, c>>)]
        /\ UNCHANGED <<acc, flat, cellVars, raceVars, readerVars, writerVars>>

Room(x) == Len(acc.cells) + Len(CellsOf(x)) <= MaxChain

\* acc = acc + x
ChainAdd ==
    \E x \in Operands :
        /\ ~sums.done /\ Room(x)
        /\ acc' = PFFLine_add(acc, x).val
        /\ flat' = flat \o CellsOf(x)
        /\ UNCHANGED <<sums, cellVars, raceVars, readerVars, writerVars>>

\* acc += x
ChainIAdd ==
    \E x \in Operands :
        /\ ~sums.done /\ Room(x)
        /\ acc' = PFFLine_iadd(acc, x).val
        /\ flat' = flat \o CellsOf(x)
        /\ UNCHANGED <<sums, cellVars, raceVars, readerVars, writerVars>>

\* acc.append(x)
ChainAppend ==
    \E x \in Operands :
        /\ ~sums.done /\ Room(x)
        /\ acc' = PFFLine_append(acc, x).val
        /\ flat' = flat \o CellsOf(x)
        /\ UNCHANGED <<sums, cellVars, raceVars, readerVars, writerVars>>

\* acc = x + acc, for a cell x
ChainCellAdd ==
    \E x \in ComposeCells :
        /\ ~sums.done /\ Room(x)
        /\ acc' = PFFCell_add(x, acc).val
        /\ flat' = <<x>> \o flat
        /\ UNCHANGED <<sums, cellVars, raceVars, readerVars, writerVars>>

\* acc = PFFLine(acc, x)
ChainConstruct ==
    \E x \in Operands :
        /\ ~sums.done /\ Room(x)
        /\ acc' = PFFLine(<<acc, x>>)
        /\ flat' = flat \o CellsOf(x)
        /\ UNCHANGED <<sums, cellVars, raceVars, readerVars, writerVars>>

NextLine == Compose \/ ChainAdd \/ ChainIAdd \/ ChainAppend \/ ChainCellAdd \/ ChainConstruct

SpecLine == InitLine /\ [][NextLine]_vars

IsFlat(l) == IsLine(l) /\ \A k \in 1..Len(l.cells) : IsCell(l.cells[k])

\* C9: (a + b) + c, a + (b + c) and PFFLine(a, b, c) are equal lines, and the
\* result of any chain of PFFLine(...), +, += and append holds the cells of
\* its operands in operand order and no nested PFFLine.
C9_FlatAssociative ==
    /\ sums.done =>
          /\ PFFLine_eq(sums.left, sums.right)
          /\ PFFLine_eq(sums.left, sums.direct)
          /\ PFFLine_eq(sums.right, sums.direct)
          /\ IsFlat(sums.left) /\ IsFlat(sums.right) /\ IsFlat(sums.direct)
          /\ sums.left.cells = CellsOf(sums.a) \o CellsOf(sums.b) \o CellsOf(sums.c)
    /\ IsLine(acc) =>
          /\ IsFlat(acc)
          /\ acc.cells = flat

\* C9 witness: a chain that spliced lines of several cells has reached its
\* full length.
C9_Witness ==
    /\ IsLine(acc) /\ Len(acc.cells) = MaxChain
    /\ acc.cells[1] # acc.cells[2]
    /\ acc.cells[1] = score_cell /\ acc.cells[MaxChain] = age_cell

----------------------------------------------------------------------------
(* A reader over a file *)

blank_cell == PFFBlankCell(1, PyNone, PyStr(<<" ">>))

short_line == Line(<<name_cell, age_cell>>)
long_line == Line(<<name_cell, blank_cell, age_cell, score_cell>>)
blank_line == Line(<<blank_cell, blank_cell>>)
empty_line == Line(<<>>)

\* the lists of line models a reader or writer is configured with
LineLists == {<<>>, <<short_line>>, <<blank_line>>, <<short_line, long_line>>,
              <<empty_line, short_line>>}

\* the line models a caller may force for one row; PyNone is "not given"
Overrides == {PyNone, empty_line, long_line}

\* the raw lines a file may hold, without their end of line
RawTexts == {<<>>, <<"a">>, <<"a", "b", "1">>, <<"A", " ", " ", "0", "#", "#">>}

\* most raw lines in a file, and most rows handed to a writer
MaxRows == 2

Readers == {PFFReader(ls, h, ch) : ls \in LineLists, h \in {"None", "lower", "raising"},
                                     ch \in {"default", "second"}}

\* a file of raw lines, each ended by "\n", not yet read
Files == {[lines |-> [k \in 1..Len(q) |-> q[k] \o EOF_LF], pos |-> 0] :
            q \in SeqsUpTo(RawTexts, MaxRows)}

InitReader ==
    /\ reader \in Readers
    /\ rfile \in Files
    /\ rlast = [done |-> FALSE]
    /\ CellOff /\ RaceOff /\ LineOff /\ WriterOff

\* reader.readline(line_model)
ReaderCalled(op, line_model, r) ==
    /\ reader' = r.self
    /\ rfile' = r.file
    /\ rlast' = [done |-> TRUE, op |-> op, line_model |-> line_model,
                 before |-> reader.lcount, exc |-> r.exc, isNone |-> r.isNone,
                 ret |-> r.ret, exhausted |-> r.exhausted, used |-> r.used]
    /\ UNCHANGED <<cellVars, raceVars, lineVars, writerVars>>

ReaderReadline ==
    \E line_model \in Overrides :
        ReaderCalled("readline", line_model, PFFReader_readline(reader, rfile, line_model))

\* next(reader)
ReaderNext == ReaderCalled("next", PyNone, PFFReader_next(reader, rfile))

NextReader == ReaderReadline \/ ReaderNext

SpecReader == InitReader /\ [][NextReader]_vars

\* C4: iterating a reader raises StopIteration only once the readline of the
\* source has signalled exhaustion, whatever the line model in force.
C4_StopsOnlyWhenExhausted ==
    (rlast.done /\ rlast.op = "next" /\ rlast.exc = "StopIteration") => rlast.exhausted

----------------------------------------------------------------------------
(* A writer over a file *)

Writers == {PFFWriter(ls, at, h, EOF_LF, ch) :
              ls \in LineLists, at \in BOOLEAN, h \in {"None", "upper"},
              ch \in {"default", "second"}}

\* the rows handed to writerow
Rows == {EmptyDict,
         "name" :> PyStr(<<"a">>),
         ("name" :> PyStr(<<"a">>)) @@ ("age" :> PyInt(1)),
         ("name" :> PyStr(<<"a", "b", "a">>)) @@ ("age" :> PyInt(1)),
         ("name" :> PyStr(<<"a">>)) @@ ("age" :> PyStr(<<"a">>)) @@ ("score" :> PyInt(1)),
         ("name" :> PyStr(<<"a">>)) @@ ("age" :> PyStr(<<"1">>)) @@ ("score" :> PyNone)}

InitWriter ==
    /\ writer \in Writers
    /\ sink = <<>>
    /\ wlast = [done |-> FALSE]
    /\ CellOff /\ RaceOff /\ LineOff /\ ReaderOff

WriterCalled(vals, line_model, r) ==
    /\ writer' = r.self
    /\ sink' = r.file
    /\ wlast' = [done |-> TRUE, vals |-> vals, line_model |-> line_model,
                 before |-> writer.lcount, exc |-> r.exc, used |-> r.used,
                 printed |-> r.printed]
    /\ UNCHANGED <<cellVars, raceVars, lineVars, readerVars>>

\* writer.writerow(vals, line_model)
WriterWriterow ==
    \E vals \in Rows, line_model \in Overrides :
        /\ Len(sink) < MaxRows
        /\ WriterCalled(vals, line_model, PFFWriter_writerow(writer, sink, vals, line_model))

NextWriter == WriterWriterow

SpecWriter == InitWriter /\ [][NextWriter]_vars

\* the default before_write cannot turn v into the type of cell c
Uncoercible(c, v) == Truthy(v) /\ CallType(c.type, v).exc # "none"

\* C10: a row holding a value that cannot be coerced to the type of its cell,
\* in a line whose cells are written by the default hook, makes writerow
\* raise WriteError.
C10_WriteErrorOnBadType ==
    (/\ wlast.done
     /\ wlast.used # PyNone
     /\ writer.before_write = "None"
     /\ \E k \in 1..Len(wlast.used.cells) :
            LET c == wlast.used.cells[k]
            IN /\ c.cls # "PFFBlankCell" /\ c.before_write = "None"
               /\ Uncoercible(c, ResolveValue(c, wlast.vals)))
    => wlast.exc = "WriteError"

\* C11: a line model given to writerow is the line model the row is written
\* with, the empty PFFLine included; chose_line_model is consulted only when
\* none is given.
C11_OverrideIsUsed ==
    (wlast.done /\ wlast.line_model # PyNone) => wlast.used = wlast.line_model

----------------------------------------------------------------------------
(* Composition with operands of other classes *)

\* objects that are neither a PFFCell nor a PFFLine
Foreign == {[cls |-> "int"], [cls |-> "unicode"], [cls |-> "NoneType"]}

MixOperands == Operands \cup Foreign

\* the cells a composition is expected to take from x
MixCells(x) == IF x \in Foreign THEN <<>> ELSE CellsOf(x)

MixRoom(x) == Len(acc.cells) + Len(MixCells(x)) <= MaxChain

\* one composition with operand x ended with outcome r; acc is rebound to
\* the result when there is one
MixCalled(op, x, r) ==
    /\ acc' = IF r.exc = "none" THEN r.val ELSE acc
    /\ sums' = [done |-> TRUE, op |-> op, x |-> x, exc |-> r.exc, before |-> acc]
    /\ UNCHANGED <<flat, cellVars, raceVars, readerVars, writerVars>>

\* acc = PFFLine(acc, x)
MixConstruct ==
    \E x \in MixOperands : MixRoom(x) /\ MixCalled("PFFLine", x, Ok(PFFLine(<<acc, x>>)))

\* acc = acc + x
MixAdd ==
    \E x \in MixOperands : MixRoom(x) /\ MixCalled("+", x, PFFLine_add(acc, x))

\* acc += x
MixIAdd ==
    \E x \in MixOperands : MixRoom(x) /\ MixCalled("+=", x, PFFLine_iadd(acc, x))

\* acc.append(x)
MixAppend ==
    \E x \in MixOperands : MixRoom(x) /\ MixCalled("append", x, PFFLine_append(acc, x))

\* acc = c + x, for a cell c
MixCellAdd ==
    \E c \in ComposeCells, x \in MixOperands :
        /\ 1 + Len(MixCells(x)) <= MaxChain
        /\ MixCalled("cell+", x, PFFCell_add(c, x))

NextMix == MixConstruct \/ MixAdd \/ MixIAdd \/ MixAppend \/ MixCellAdd

SpecMix == InitLine /\ [][NextMix]_vars

\* C12: composing with an operand that is neither a PFFCell nor a PFFLine
\* raises TypeError on every path: PFFLine(...), line + x, line += x,
\* line.append(x) and cell + x.
C12_ForeignOperandRaises ==
    (sums.done /\ sums.x \in Foreign) => sums.exc = "TypeError"

----------------------------------------------------------------------------
(* Rows that fail *)

\* the cumulative width of the cells of a line
RECURSIVE LineWidth(_)
LineWidth(cells) == IF cells = <<>> THEN 0 ELSE Head(cells).length + LineWidth(Tail(cells))

\* record is one whole row of line_model ended by the end-of-record marker
CompleteRecord(record, line_model, eof) ==
    /\ Len(record) = LineWidth(line_model.cells) + Len(eof)
    /\ SubSeq(record, Len(record) - Len(eof) + 1, Len(record)) = eof

\* one call of writerow: a call that raised left the file and lcount alone,
\* a call that returned appended one whole record and counted it
WriterowStep ==
    IF wlast'.exc # "none"
    THEN sink' = sink /\ writer'.lcount = writer.lcount
    ELSE /\ writer'.lcount = writer.lcount + 1
         /\ Len(sink') = Len(sink) + 1
         /\ SubSeq(sink', 1, Len(sink)) = sink
         /\ CompleteRecord(sink'[Len(sink')], wlast'.used, writer.eof)

\* C13: a writerow in which a cell raises hands nothing to the file and
\* leaves lcount unchanged; after any sequence of calls lcount is the number
\* of calls that returned, and the file holds one whole record, ended by the
\* end-of-record marker, for each of them, in call order.
C13_AllOrNothing ==
    /\ [][WriterowStep]_vars
    /\ [](writer.lcount = Len(sink))

\* C13 witness: after a row was written, a second row failed on a cell that
\* is not the first of its line.
C13_Witness ==
    /\ wlast.done /\ wlast.exc # "none" /\ wlast.printed = "age"
    /\ wlast.before = 1 /\ Len(sink) = 1

----------------------------------------------------------------------------
(* Lines shorter than their line model *)

\* the raw line the last call of the reader took from the file
LastRawLine == rfile.lines[rfile.pos]

\* the slice of cell k of line_model reaches past the end of a text of n characters
ShortSlice(line_model, k, n) ==
    LineWidth(SubSeq(line_model.cells, 1, k - 1)) + line_model.cells[k].length > n

\* C14: reading a text shorter than the cumulative width of the line model
\* never raises, stores an entry for every cell that is not blank, and stores
\* None for every cell whose slice is short or empty.
C14_ShortSliceReadsNone ==
    (/\ rlast.done /\ rlast.op = "readline" /\ rlast.used # PyNone
     /\ reader.after_read = "None")
    => /\ rlast.exc = "none"
       /\ \A k \in 1..Len(rlast.used.cells) :
              rlast.used.cells[k].cls # "PFFBlankCell" =>
                 /\ rlast.used.cells[k].name \in DOMAIN rlast.ret
                 /\ ShortSlice(rlast.used, k, Len(LastRawLine)) =>
                        rlast.ret[rlast.used.cells[k].name] = PyNone

\* C15: lcount of a reader counts the row maps returned to the caller: a call
\* of readline or next that met the end of the source, or that raised, leaves
\* lcount as it was.
C15_CountsReturnedRows ==
    (rlast.done /\ (rlast.exc # "none" \/ rlast.isNone)) => reader.lcount = rlast.before

====
